---- MODULE Spec2Model ----
(***************************************************************************)
(* A model of kevinryu335/ev-telemetry-predict:                            *)
(*   evtp/etl.py        ETLPipeline (load, validate, feature engineering,  *)
(*                      SQLite persistence, run)                           *)
(*   evtp/generator.py  TelemetryGenerator (seeded random walk)            *)
(*                                                                         *)
(* Numbers.  CSV cells are text; pd.to_numeric / pd.to_datetime turn them  *)
(* into numbers or raise.  Parsed channel values are integers.  A derived  *)
(* float column (rolling mean, rolling std, delta) holds an exact rational *)
(* [num, den]; den = 0 is NaN.  A rolling std is held as its square (the   *)
(* sample variance), which is 0 exactly when the std is 0.                 *)
(***************************************************************************)
EXTENDS Integers, Sequences, FiniteSets, TLC

VARIABLES
    csv,      \* the file at csv_path: [header |-> column names, rows |-> text rows]
    fault,    \* the stage of this run in which the library raises, or "none"
    pc,       \* the statement ETLPipeline.run is at
    raw,      \* run's local `raw`
    feat,     \* run's local `feat`
    db,       \* the SQLite file at db_path
    ret,      \* what the last run returned or raised
    runs,     \* how many runs were started
    db0,      \* history: the database when the current run started
    log       \* history: the statements of run completed in the current run

etlVars == <<csv, fault, pc, raw, feat, db, ret, runs, db0, log>>

VARIABLES
    rng,      \* the state of the process-wide generator of module `random`
    gens,     \* the TelemetryGenerator objects and their stream_rows iterators
    out       \* the rows each iterator has yielded so far

genVars == <<rng, gens, out>>

vars == <<etlVars, genVars>>

Max(a, b) == IF a > b THEN a ELSE b
Min(a, b) == IF a < b THEN a ELSE b

RECURSIVE SeqSum(_)
SeqSum(s) == IF s = <<>> THEN 0 ELSE Head(s) + SeqSum(Tail(s))

IdxSeq(n) == [k \in 1..n |-> k]

(***************************************************************************)
(* etl.py: the schema                                                      *)
(***************************************************************************)
RAW_COLUMNS_REQUIRED ==
    <<"timestamp", "vin", "speed_kmh", "soc_pct", "battery_temp_c", "motor_current_a",
      "inverter_temp_c", "ambient_temp_c", "tire_wear_pct", "brake_wear_pct">>

RequiredSet == {RAW_COLUMNS_REQUIRED[k] : k \in 1..Len(RAW_COLUMNS_REQUIRED)}

numeric_cols ==
    SelectSeq(RAW_COLUMNS_REQUIRED, LAMBDA c : c \notin {"timestamp", "vin"})

roll_cols ==
    <<"speed_kmh", "battery_temp_c", "motor_current_a", "inverter_temp_c", "ambient_temp_c">>

wear_cols == <<"tire_wear_pct", "brake_wear_pct", "soc_pct">>

SeqSet(s) == {s[k] : k \in 1..Len(s)}

(***************************************************************************)
(* Text and its parsers.  NumText[k] is the text of the number k - 2, and  *)
(* TimeText[k] the text of the instant k - 1; any other text does not      *)
(* parse.                                                                  *)
(***************************************************************************)
NumText == <<"-1", "0", "1", "2", "3", "4">>

TimeText ==
    <<"2024-01-01T00:00:00", "2024-01-01T00:00:01", "2024-01-01T00:00:02",
      "2024-01-01T00:00:03", "2024-01-01T00:00:04", "2024-01-01T00:00:05",
      "2024-01-01T00:00:06", "2024-01-01T00:00:07", "2024-01-01T00:00:08",
      "2024-01-01T00:00:09", "2024-01-01T00:00:10", "2024-01-01T00:00:11",
      "2024-01-01T00:00:12", "2024-01-01T00:00:13">>

IsNumeric(s) == \E k \in 1..Len(NumText) : NumText[k] = s
to_numeric(s) == (CHOOSE k \in 1..Len(NumText) : NumText[k] = s) - 2

IsTime(s) == \E k \in 1..Len(TimeText) : TimeText[k] = s
to_datetime(s) == (CHOOSE k \in 1..Len(TimeText) : TimeText[k] = s) - 1

\* Python's order on the vin strings of the model.
VinOrder == <<"EV001", "EV002">>
VinRank(v) == CHOOSE k \in 1..Len(VinOrder) : VinOrder[k] = v

(***************************************************************************)
(* Exceptions.  Every failure of the pipeline is a Python exception that   *)
(* run does not catch.                                                     *)
(***************************************************************************)
NoError == [exc |-> "none", msg |-> "", missing |-> <<>>]
MissingColumnsError(missing) ==
    [exc |-> "ValueError", msg |-> "Missing required columns", missing |-> missing]
TimestampParseError ==
    [exc |-> "ValueError", msg |-> "Unknown datetime string format", missing |-> <<>>]
NumericParseError ==
    [exc |-> "ValueError", msg |-> "Unable to parse string", missing |-> <<>>]
LibraryError ==
    [exc |-> "MemoryError", msg |-> "", missing |-> <<>>]

(***************************************************************************)
(* ETLPipeline._validate_required_columns                                  *)
(***************************************************************************)
MissingFirstOnly(cols) ==
    LET all == SelectSeq(RAW_COLUMNS_REQUIRED, LAMBDA c : c \notin cols)
    IN  IF all = <<>> THEN <<>> ELSE <<Head(all)>>

Missing(cols) == SelectSeq(RAW_COLUMNS_REQUIRED, LAMBDA c : c \notin cols)

\* The exception _validate_required_columns raises for a header, or NoError.
_validate_required_columns(cols) ==
    IF Missing(cols) # <<>> THEN MissingColumnsError(Missing(cols)) ELSE NoError

(***************************************************************************)
(* A DataFrame: [columns |-> names, typed |-> the columns already parsed,  *)
(* rows |-> rows in index order].  A row maps each column to its value.    *)
(***************************************************************************)
Frame(columns, typed, rows) == [columns |-> columns, typed |-> typed, rows |-> rows]
NoFrame == Frame({}, {}, <<>>)

\* pd.read_csv: every cell is still text.
read_csv(file) == Frame(file.header, {}, file.rows)

\* ETLPipeline.load_csv after read_csv: the exception raised, or NoError.
load_csv_error(file) ==
    IF _validate_required_columns(file.header) # NoError
    THEN _validate_required_columns(file.header)
    ELSE IF \E i \in 1..Len(file.rows) : ~IsTime(file.rows[i]["timestamp"])
         THEN TimestampParseError
         ELSE NoError

\* ETLPipeline.load_csv when it raises nothing.
load_csv(file) ==
    LET df == read_csv(file)
    IN  Frame(df.columns, df.typed \cup {"timestamp"},
              [i \in 1..Len(df.rows) |->
                  [df.rows[i] EXCEPT !["timestamp"] = to_datetime(@)]])

\* ETLPipeline._coerce_dtypes: to_numeric leaves a numeric column as it is;
\* vin is text already, which astype(str) keeps.
_coerce_dtypes_error(df) ==
    IF \E k \in 1..Len(numeric_cols) :
           /\ numeric_cols[k] \notin df.typed
           /\ \E i \in 1..Len(df.rows) : ~IsNumeric(df.rows[i][numeric_cols[k]])
    THEN NumericParseError
    ELSE NoError

_coerce_dtypes(df) ==
    Frame(df.columns, df.typed \cup SeqSet(numeric_cols),
          [i \in 1..Len(df.rows) |->
              [c \in DOMAIN df.rows[i] |->
                  IF c \in SeqSet(numeric_cols) /\ c \notin df.typed
                  THEN to_numeric(df.rows[i][c])
                  ELSE df.rows[i][c]]])

(***************************************************************************)
(* Floats of the derived columns.                                          *)
(***************************************************************************)
Rat(n, d) == [num |-> n, den |-> d]
NaN == Rat(0, 0)
IsNaN(x) == x.den = 0
fillna(x, v) == IF IsNaN(x) THEN v ELSE x
Zero == Rat(0, 1)

(***************************************************************************)
(* df.sort_values(["vin","timestamp"]).reset_index(drop=True).  With more  *)
(* than one key pandas sorts with a lexsort, which is stable: a row goes   *)
(* after every row whose key is not greater.                               *)
(***************************************************************************)
KeyLess(a, b) ==
    \/ VinRank(a["vin"]) < VinRank(b["vin"])
    \/ a["vin"] = b["vin"] /\ a["timestamp"] < b["timestamp"]

InsertUnstable(sorted, r) ==
    LET p == Cardinality({k \in 1..Len(sorted) : KeyLess(sorted[k], r)})
    IN  SubSeq(sorted, 1, p) \o <<r>> \o SubSeq(sorted, p + 1, Len(sorted))

InsertDropTies(sorted, r) ==
    LET p == Cardinality({k \in 1..Len(sorted) : ~KeyLess(r, sorted[k])})
    IN  IF \E k \in 1..Len(sorted) : ~KeyLess(r, sorted[k]) /\ ~KeyLess(sorted[k], r)
        THEN sorted
        ELSE SubSeq(sorted, 1, p) \o <<r>> \o SubSeq(sorted, p + 1, Len(sorted))

InsertSorted(sorted, r) ==
    LET p == Cardinality({k \in 1..Len(sorted) : ~KeyLess(r, sorted[k])})
    IN  SubSeq(sorted, 1, p) \o <<r>> \o SubSeq(sorted, p + 1, Len(sorted))

RECURSIVE SortPrefix(_, _)
SortPrefix(rows, n) ==
    IF n = 0 THEN <<>> ELSE InsertSorted(SortPrefix(rows, n - 1), rows[n])

sort_values(rows) == SortPrefix(rows, Len(rows))

(***************************************************************************)
(* df.groupby("vin")[col]: the index labels of one vin's rows, in frame    *)
(* order; .rolling(10, min_periods=1) and .diff() work inside one group,   *)
(* and the result is aligned back on the index.                            *)
(***************************************************************************)
RollWindow == 10
MinPeriods == 1

GroupAll(rows, v) == IdxSeq(Len(rows))

Group(rows, v) == SelectSeq(IdxSeq(Len(rows)), LAMBDA j : rows[j]["vin"] = v)

PosIn(g, i) == CHOOSE k \in 1..Len(g) : g[k] = i

WindowOffByOne(g, k) == SubSeq(g, Max(1, k - RollWindow), k)

\* The labels of the trailing window that ends at the k-th row of group g.
Window(g, k) == SubSeq(g, Max(1, k - RollWindow + 1), k)

WindowOf(rows, i) ==
    LET g == Group(rows, rows[i]["vin"]) IN Window(g, PosIn(g, i))

Values(rows, col, w) == [k \in 1..Len(w) |-> rows[w[k]][col]]
Squares(s) == [k \in 1..Len(s) |-> s[k] * s[k]]

rolling_mean(rows, col, i) ==
    LET x == Values(rows, col, WindowOf(rows, i))
    IN  IF Len(x) < MinPeriods THEN NaN ELSE Rat(SeqSum(x), Len(x))

\* The sample estimator (ddof = 1), as its square; NaN for a window of one.
rolling_std(rows, col, i) ==
    LET x == Values(rows, col, WindowOf(rows, i))
        n == Len(x)
    IN  IF n < MinPeriods \/ n - 1 <= 0
        THEN NaN
        ELSE Rat(n * SeqSum(Squares(x)) - SeqSum(x) * SeqSum(x), n * (n - 1))

diff(rows, col, i) ==
    LET g == Group(rows, rows[i]["vin"])
        k == PosIn(g, i)
    IN  IF k = 1 THEN NaN ELSE Rat(rows[i][col] - rows[g[k - 1]][col], 1)

clip_lower(x, lo) == IF x < lo THEN lo ELSE x

thermal_stress(r) == (r["battery_temp_c"] + r["inverter_temp_c"]) - r["ambient_temp_c"]

PowerStressNoClip(r) == r["motor_current_a"] * r["speed_kmh"]

power_stress(r) == r["motor_current_a"] * clip_lower(r["speed_kmh"], 1)

\* The columns cols[k] \o suffix, each holding F(cols[k]).
NewColumns(cols, suffix, F(_)) ==
    [n \in {c \o suffix : c \in SeqSet(cols)} |->
        F(CHOOSE c \in SeqSet(cols) : c \o suffix = n)]

(***************************************************************************)
(* ETLPipeline.feature_engineer, for a frame _coerce_dtypes accepts.       *)
(***************************************************************************)
feature_engineer(df0) ==
    LET df   == _coerce_dtypes(df0)
        rows == sort_values(df.rows)
        EngineeredRow(i) ==
            rows[i]
            @@ NewColumns(roll_cols, "_roll_mean_10", LAMBDA c : rolling_mean(rows, c, i))
            @@ NewColumns(roll_cols, "_roll_std_10",
                          LAMBDA c : fillna(rolling_std(rows, c, i), Zero))
            @@ NewColumns(roll_cols, "_delta", LAMBDA c : fillna(diff(rows, c, i), Zero))
            @@ NewColumns(wear_cols, "_delta", LAMBDA c : fillna(diff(rows, c, i), Zero))
            @@ [n \in {"thermal_stress"} |-> thermal_stress(rows[i])]
            @@ [n \in {"power_stress"} |-> power_stress(rows[i])]
    IN  Frame(df.columns
                \cup {c \o "_roll_mean_10" : c \in SeqSet(roll_cols)}
                \cup {c \o "_roll_std_10" : c \in SeqSet(roll_cols)}
                \cup {c \o "_delta" : c \in SeqSet(roll_cols) \cup SeqSet(wear_cols)}
                \cup {"thermal_stress", "power_stress"},
              df.typed,
              [i \in 1..Len(rows) |-> EngineeredRow(i)])

(***************************************************************************)
(* The SQLite file: its tables and its indices.                            *)
(***************************************************************************)
NoTable == [exists |-> FALSE, columns |-> {}, rows |-> <<>>]
Table(frame) == [exists |-> TRUE, columns |-> frame.columns, rows |-> frame.rows]
EmptyDb == [tables |-> [raw |-> NoTable, features |-> NoTable], indices |-> {}]

IndexOn(table) == IF table = "raw" THEN "idx_raw_vin_ts" ELSE "idx_feat_vin_ts"

ToSqlAppend(d, table, frame) ==
    [d EXCEPT !.tables[table] =
        [exists |-> TRUE, columns |-> frame.columns, rows |-> @.rows \o frame.rows]]

\* ETLPipeline._to_sql: if_exists="replace" drops the table (and with it the
\* indices on it) and creates it again from the frame.
_to_sql(d, table, frame) ==
    [d EXCEPT !.tables[table] = Table(frame), !.indices = @ \ {IndexOn(table)}]

\* ETLPipeline._create_indices
_create_indices(d) ==
    [d EXCEPT !.indices = @ \cup {IndexOn("raw"), IndexOn("features")}]

(***************************************************************************)
(* Input files.  A row of a file maps each column of the header to text.   *)
(***************************************************************************)
MaxRuns == 2       \* runs of the pipeline on one database
MaxRunRows == 2    \* rows of a file of Spec
MaxSmall == 3      \* rows of a file of SpecFE drawn row by row
MaxLong == 12      \* rows of a file of SpecFE made from a pattern

Text(n) == NumText[n + 2]

\* Channel readings of a row; any two of them differ in every channel.
Profiles ==
    <<[speed_kmh |-> 0, soc_pct |-> 4, battery_temp_c |-> 1, motor_current_a |-> 3,
       inverter_temp_c |-> 2, ambient_temp_c |-> 1, tire_wear_pct |-> 4,
       brake_wear_pct |-> 3],
      [speed_kmh |-> 2, soc_pct |-> 3, battery_temp_c |-> 3, motor_current_a |-> 2,
       inverter_temp_c |-> 4, ambient_temp_c |-> 0, tire_wear_pct |-> 3,
       brake_wear_pct |-> 1],
      [speed_kmh |-> -1, soc_pct |-> 0, battery_temp_c |-> -1, motor_current_a |-> 4,
       inverter_temp_c |-> 0, ambient_temp_c |-> 2, tire_wear_pct |-> 0,
       brake_wear_pct |-> 0]>>

TextRow(vin, ts, values) ==
    [c \in RequiredSet |->
        IF c = "timestamp" THEN ts
        ELSE IF c = "vin" THEN vin
        ELSE Text(values[c])]

Restrict(row, header) ==
    [c \in header |-> IF c \in DOMAIN row THEN row[c] ELSE "free text"]

File(header, rows) ==
    [header |-> header, rows |-> [i \in 1..Len(rows) |-> Restrict(rows[i], header)]]

SeqsUpTo(S, n) == UNION {[1..k -> S] : k \in 0..n}

\* Rows of the files of Spec: two good ones, one whose timestamp does not
\* parse, one with a channel that is not a number.
RunRows ==
    {TextRow("EV002", TimeText[1], Profiles[1]),
     TextRow("EV001", TimeText[2], Profiles[2]),
     TextRow("EV001", "half past nine", Profiles[1]),
     [TextRow("EV001", TimeText[1], Profiles[3]) EXCEPT !["motor_current_a"] = "n/a"]}

\* Every header made of required columns only, the complete one included.
Headers == SUBSET RequiredSet

HeaderFiles ==
    {File(h, <<TextRow("EV001", TimeText[1], Profiles[1])>>) :
        h \in Headers \cup {RequiredSet \cup {"driver_note"}}}

RunFiles ==
    {File(RequiredSet, rows) : rows \in SeqsUpTo(RunRows, MaxRunRows)}
    \cup {File(RequiredSet \ m, <<TextRow("EV001", TimeText[1], Profiles[1])>>) :
             m \in {{"vin"}, {"timestamp", "soc_pct"}, RequiredSet}}

SmallRows ==
    {TextRow(VinOrder[v], TimeText[t], Profiles[p]) : v \in 1..2, t \in 1..2, p \in 1..2}

\* One entity; two entities in turn, as the generator writes them; one
\* entity with a single row among the rows of another.
VinPattern(q, k) ==
    CASE q = 1 -> "EV001"
      [] q = 2 -> VinOrder[1 + ((k + 1) % 2)]
      [] OTHER -> IF k = 2 THEN "EV001" ELSE "EV002"

TimePattern(q, k, n) ==
    CASE q = 1 -> TimeText[k]
      [] q = 2 -> TimeText[n - k + 1]
      [] OTHER -> TimeText[1 + ((k - 1) \div 2)]

ValuePattern(p, k) ==
    [c \in SeqSet(numeric_cols) |->
        LET j == CHOOSE x \in 1..Len(numeric_cols) : numeric_cols[x] = c
        IN  ((k * (j + p) + j) % 6) - 1]

LongFile(n, vq, tq, p) ==
    File(RequiredSet,
         [k \in 1..n |-> TextRow(VinPattern(vq, k), TimePattern(tq, k, n), ValuePattern(p, k))])

FEFiles ==
    {File(RequiredSet, rows) : rows \in SeqsUpTo(SmallRows, MaxSmall)}
    \cup {LongFile(n, vq, tq, p) : n \in 0..MaxLong, vq \in 1..3, tq \in 1..3, p \in 0..1}
    \cup {File(RequiredSet, <<r>>) : r \in RunRows}
    \cup HeaderFiles

(***************************************************************************)
(* generator.py.  Floats are fixed-point numbers, in units of 1e-5, so     *)
(* that the smallest step of the walk (0.00002) is a whole number.         *)
(* Module `random` is one process-wide generator: seed sets its state,     *)
(* every uniform advances it and returns a number made from the new        *)
(* state.  The recurrence stands for the Mersenne Twister: a state with    *)
(* 1024 values, each draw a fixed function of it.                          *)
(***************************************************************************)
Fx(n) == n * 100000

random_seed(s) == s % 1024

random_next(x) == (x * 165 + 421) % 1024

\* random.uniform(a, b) = a + (b - a) * random(), from the advanced state x.
uniform(x, a, b) == a + ((b - a) * x) \div 1024

ClampNoFloor(x, lo, hi) == Min(hi, x)

_clamp(x, lo, hi) == Max(lo, Min(hi, x))

\* round(x, 2): a number in units of 1e-2.
round2(x) == (x + 500) \div 1000

VehicleState ==
    [soc |-> Fx(100), speed |-> 0, batt |-> Fx(25), motor |-> Fx(10),
     inverter |-> Fx(20), ambient |-> Fx(20), tire |-> Fx(100), brake |-> Fx(100)]

\* TelemetryGenerator._step on state s with the process-wide generator at x:
\* the new state, the generator after the eight draws, and the row.
_step(s, x) ==
    LET x1 == random_next(x)
        x2 == random_next(x1)
        x3 == random_next(x2)
        x4 == random_next(x3)
        x5 == random_next(x4)
        x6 == random_next(x5)
        x7 == random_next(x6)
        x8 == random_next(x7)
        speed    == _clamp(s.speed + uniform(x1, Fx(-2), Fx(3)), 0, Fx(160))
        soc      == _clamp(s.soc - ((7 * speed) \div 10000) + uniform(x2, -2000, 2000),
                           0, Fx(100))
        batt     == s.batt + (speed \div 100) + uniform(x3, -30000, 30000)
        motor    == s.motor + ((15 * speed) \div 1000) + uniform(x4, -40000, 40000)
        inverter == s.inverter + ((12 * speed) \div 1000) + uniform(x5, -30000, 30000)
        tire     == _clamp(s.tire - uniform(x6, 2, 8), 0, Fx(100))
        brake    == _clamp(s.brake - uniform(x7, 5, 12), 0, Fx(100))
        ambient  == _clamp(s.ambient + uniform(x8, -5000, 5000), Fx(-10), Fx(45))
    IN  [state |-> [soc |-> soc, speed |-> speed, batt |-> batt, motor |-> motor,
                    inverter |-> inverter, ambient |-> ambient, tire |-> tire,
                    brake |-> brake],
         rng |-> x8,
         row |-> [speed_kmh |-> round2(speed), soc_pct |-> round2(soc),
                  battery_temp_c |-> round2(batt),
                  motor_current_a |-> round2(Fx(100) + motor),
                  inverter_temp_c |-> round2(inverter),
                  ambient_temp_c |-> round2(ambient),
                  tire_wear_pct |-> round2(tire), brake_wear_pct |-> round2(brake)]]

MaxGens == 2       \* TelemetryGenerator objects alive in the process
MaxGenRows == 2    \* the rows argument of stream_rows in SpecGen
WalkRows == 1400   \* the rows argument of stream_rows in SpecWalk

Seeds == {42, 7}
VinLists == {<<"EV001">>, <<"EV001", "EV002">>}
Rates == {2, 5}

NoGen ==
    [phase |-> "none", vins |-> <<>>, seed |-> 0, hz |-> 0, rows |-> 0, start |-> 0,
     states |-> <<>>, t |-> 0, k |-> 0, j |-> 0]

\* TelemetryGenerator(vins, hz, seed): __post_init__ seeds the process-wide
\* generator and gives every vin a fresh VehicleState.
Create(i) ==
    /\ gens[i].phase = "none"
    /\ \E vins \in VinLists, seed \in Seeds, hz \in Rates :
          /\ rng' = random_seed(seed)
          /\ gens' = [gens EXCEPT ![i] =
                [NoGen EXCEPT !.phase = "made", !.vins = vins, !.seed = seed, !.hz = hz,
                              !.states = [v \in 1..Len(vins) |-> VehicleState]]]
    /\ UNCHANGED <<out, etlVars>>

\* g.stream_rows(rows, start): makes the iterator; nothing runs before the
\* first next().  Times are in milliseconds.
StreamRows(i, rows) ==
    /\ gens[i].phase = "made"
    /\ gens' = [gens EXCEPT ![i].phase = "streaming", ![i].rows = rows,
                            ![i].start = 0, ![i].t = 0, ![i].k = 0, ![i].j = 1]
    /\ UNCHANGED <<rng, out, etlVars>>

\* One next() on the iterator: _step for the vin whose turn it is, and the
\* row is yielded; after the last vin the time advances by 1 / hz.
Yield(i) ==
    LET g == gens[i]
        r == _step(g.states[g.j], rng)
        last == g.j = Len(g.vins)
        k2 == IF last THEN g.k + 1 ELSE g.k
    IN  [gen |-> [g EXCEPT !.states[g.j] = r.state,
                           !.j = IF last THEN 1 ELSE g.j + 1,
                           !.k = k2,
                           !.t = IF last THEN g.t + (1000 \div g.hz) ELSE g.t,
                           !.phase = IF k2 = g.rows THEN "done" ELSE "streaming"],
         rng |-> r.rng,
         row |-> [timestamp |-> g.t, vin |-> g.vins[g.j]] @@ r.row]

\* next() by a consumer that keeps every row, as to_csv does.
NextRow(i) ==
    /\ gens[i].phase = "streaming"
    /\ gens' = [gens EXCEPT ![i] = Yield(i).gen]
    /\ rng' = Yield(i).rng
    /\ out' = [out EXCEPT ![i] = Append(@, Yield(i).row)]
    /\ UNCHANGED etlVars

\* next() by a consumer that keeps the latest row only.
NextRowLatest(i) ==
    /\ gens[i].phase = "streaming"
    /\ gens' = [gens EXCEPT ![i] = Yield(i).gen]
    /\ rng' = Yield(i).rng
    /\ out' = [out EXCEPT ![i] = <<Yield(i).row>>]
    /\ UNCHANGED etlVars

InitGen ==
    /\ rng = 0
    /\ gens = [i \in 1..MaxGens |-> NoGen]
    /\ out = [i \in 1..MaxGens |-> <<>>]

(***************************************************************************)
(* ETLPipeline.run, one action per statement.  An exception ends the run   *)
(* where it is raised.  db0 and log are history: the database as the run   *)
(* found it and the statements the run completed.                          *)
(***************************************************************************)
NoReturn == [status |-> "none", at |-> "", err |-> NoError, value |-> <<>>]
Raised(at, e) == [status |-> "raised", at |-> at, err |-> e, value |-> <<>>]
Returned(v) == [status |-> "returned", at |-> "", err |-> NoError, value |-> v]

Faults == {"none", "feature_engineer"}

Begin(files) ==
    /\ pc = "idle"
    /\ csv' \in files
    /\ fault' \in Faults
    /\ pc' = "load_csv"
    /\ raw' = NoFrame
    /\ feat' = NoFrame
    /\ ret' = NoReturn
    /\ runs' = runs + 1
    /\ db0' = db
    /\ log' = <<>>
    /\ UNCHANGED <<db, genVars>>

StartRun == runs < MaxRuns /\ Begin(RunFiles)

StartRunFE == runs = 0 /\ Begin(FEFiles)

Raise(at, e) ==
    /\ pc' = "idle"
    /\ ret' = Raised(at, e)
    /\ UNCHANGED <<csv, fault, raw, feat, db, runs, db0, log, genVars>>

\* raw = self.load_csv(csv_path)
LoadCsv ==
    /\ pc = "load_csv"
    /\ IF load_csv_error(csv) # NoError
       THEN Raise("load_csv", load_csv_error(csv))
       ELSE /\ raw' = load_csv(csv)
            /\ pc' = "_coerce_dtypes"
            /\ log' = Append(log, "load_csv")
            /\ UNCHANGED <<csv, fault, feat, db, ret, runs, db0, genVars>>

PersistBeforeCoerce ==
    /\ pc = "_coerce_dtypes"
    /\ db' = _to_sql(db, "raw", raw)
    /\ IF _coerce_dtypes_error(raw) # NoError
       THEN /\ pc' = "idle"
            /\ ret' = Raised("_coerce_dtypes", _coerce_dtypes_error(raw))
            /\ UNCHANGED <<csv, fault, raw, feat, runs, db0, log, genVars>>
       ELSE /\ raw' = _coerce_dtypes(raw)
            /\ pc' = "to_sql_raw"
            /\ log' = Append(log, "_coerce_dtypes")
            /\ UNCHANGED <<csv, fault, feat, ret, runs, db0, genVars>>

\* raw = self._coerce_dtypes(raw)
CoerceDtypes ==
    /\ pc = "_coerce_dtypes"
    /\ IF _coerce_dtypes_error(raw) # NoError
       THEN Raise("_coerce_dtypes", _coerce_dtypes_error(raw))
       ELSE /\ raw' = _coerce_dtypes(raw)
            /\ pc' = "to_sql_raw"
            /\ log' = Append(log, "_coerce_dtypes")
            /\ UNCHANGED <<csv, fault, feat, db, ret, runs, db0, genVars>>

\* self._to_sql("raw", raw)
ToSqlRaw ==
    /\ pc = "to_sql_raw"
    /\ db' = _to_sql(db, "raw", raw)
    /\ pc' = "feature_engineer"
    /\ log' = Append(log, "to_sql_raw")
    /\ UNCHANGED <<csv, fault, raw, feat, ret, runs, db0, genVars>>

\* feat = self.feature_engineer(raw)
FeatureEngineer ==
    /\ pc = "feature_engineer"
    /\ IF fault = "feature_engineer"
       THEN Raise("feature_engineer", LibraryError)
       ELSE IF _coerce_dtypes_error(raw) # NoError
       THEN Raise("feature_engineer", _coerce_dtypes_error(raw))
       ELSE /\ feat' = feature_engineer(raw)
            /\ pc' = "to_sql_features"
            /\ log' = Append(log, "feature_engineer")
            /\ UNCHANGED <<csv, fault, raw, db, ret, runs, db0, genVars>>

\* self._to_sql("features", feat)
ToSqlFeatures ==
    /\ pc = "to_sql_features"
    /\ db' = _to_sql(db, "features", feat)
    /\ pc' = "_create_indices"
    /\ log' = Append(log, "to_sql_features")
    /\ UNCHANGED <<csv, fault, raw, feat, ret, runs, db0, genVars>>

\* self._create_indices(); return len(raw), len(feat)
CreateIndicesAndReturn ==
    /\ pc = "_create_indices"
    /\ db' = _create_indices(db)
    /\ pc' = "idle"
    /\ log' = Append(log, "_create_indices")
    /\ ret' = Returned(<<Len(raw.rows), Len(feat.rows)>>)
    /\ UNCHANGED <<csv, fault, raw, feat, runs, db0, genVars>>

Stages ==
    \/ LoadCsv
    \/ CoerceDtypes
    \/ ToSqlRaw
    \/ FeatureEngineer
    \/ ToSqlFeatures
    \/ CreateIndicesAndReturn

InitETL ==
    /\ csv = File({}, <<>>)
    /\ fault = "none"
    /\ pc = "idle"
    /\ raw = NoFrame
    /\ feat = NoFrame
    /\ db = EmptyDb
    /\ ret = NoReturn
    /\ runs = 0
    /\ db0 = EmptyDb
    /\ log = <<>>

Init == InitETL /\ InitGen

\* Runs of the pipeline, one after the other, on one database.
Next == StartRun \/ Stages

Spec == Init /\ [][Next]_vars

\* One run of the pipeline on a file of FEFiles.
NextFE == StartRunFE \/ Stages

SpecFE == Init /\ [][NextFE]_vars

\* Generators of one process, their iterators stepped in any order.
NextGen ==
    \E i \in 1..MaxGens :
        \/ Create(i)
        \/ \E rows \in 1..MaxGenRows : StreamRows(i, rows)
        \/ NextRow(i)

SpecGen == Init /\ [][NextGen]_vars

\* One generator on a long walk.
NextWalk ==
    \/ Create(1)
    \/ StreamRows(1, WalkRows)
    \/ NextRowLatest(1)

SpecWalk == Init /\ [][NextWalk]_vars

(***************************************************************************)
(* Properties of the pipeline                                              *)
(***************************************************************************)
RunOrder ==
    <<"load_csv", "_coerce_dtypes", "to_sql_raw", "feature_engineer", "to_sql_features",
      "_create_indices">>

\* feature_engineer has returned in the current run: raw is what it was
\* given and feat what it gave back.
Engineered == Len(log) >= 4

In == raw.rows
Out == feat.rows

RECURSIVE SumOver(_, _, _)
SumOver(S, rows, col) ==
    IF S = {} THEN 0
    ELSE LET j == CHOOSE x \in S : TRUE
         IN  rows[j][col] + SumOver(S \ {j}, rows, col)

\* The rows of Out before row i that belong to the entity of row i.
Before(i) == {j \in 1..(i - 1) : Out[j]["vin"] = Out[i]["vin"]}
Last(S) == CHOOSE j \in S : \A m \in S : m <= j

DeltaCols == SeqSet(roll_cols) \cup SeqSet(wear_cols)

\* An engineered row without its derived columns.
RawPart(row) == [c \in raw.columns |-> row[c]]

\* C1: run returns two equal counts, the number of rows of the input file;
\* feature_engineer keeps every row and every column it was given.
C1_RowCountPreserved ==
    /\ Engineered =>
          /\ Len(Out) = Len(In)
          /\ raw.columns \subseteq feat.columns
          /\ \A j \in 1..Len(In) :
                Cardinality({i \in 1..Len(Out) : RawPart(Out[i]) = In[j]})
                    = Cardinality({i \in 1..Len(In) : In[i] = In[j]})
    /\ ret.status = "returned" =>
          /\ ret.value[1] = ret.value[2]
          /\ ret.value[1] = Len(csv.rows)

C1_Witness ==
    /\ ret.status = "returned"
    /\ ret.value = <<MaxLong, MaxLong>>
    /\ \E i, j \in 1..Len(In) :
          /\ i < j
          /\ In[i]["vin"] = In[j]["vin"]
          /\ In[i]["timestamp"] = In[j]["timestamp"]

\* C2: in the engineered batch every entity's rows are in timestamp order;
\* the delta of an entity's first row is 0 in all eight delta channels, and
\* the delta of a later row is its value minus the value of the entity's
\* row just before it.
C2_DeltaPerEntity ==
    Engineered =>
        \A i \in 1..Len(Out) :
            /\ \A j \in Before(i) : Out[j]["timestamp"] <= Out[i]["timestamp"]
            /\ \A c \in DeltaCols :
                  LET d == Out[i][c \o "_delta"]
                  IN  /\ d.den = 1
                      /\ IF Before(i) = {}
                         THEN d.num = 0
                         ELSE d.num = Out[i][c] - Out[Last(Before(i))][c]

C2_Witness ==
    /\ Engineered
    /\ \E i \in 2..Len(Out) :
          /\ Before(i) = {}
          /\ Out[i]["soc_pct"] # Out[i - 1]["soc_pct"]
          /\ Out[i]["soc_pct_delta"].num = 0
    /\ \E i \in 2..Len(Out) :
          /\ Before(i) # {}
          /\ Out[i]["speed_kmh_delta"].num # 0
          /\ Out[i]["brake_wear_pct_delta"].num # 0
    /\ \E i \in 1..(Len(In) - 2) :
          In[i]["vin"] # In[i + 1]["vin"] /\ In[i]["vin"] = In[i + 2]["vin"]
    /\ \E i \in 1..(Len(In) - 1) : In[i]["timestamp"] > In[i + 1]["timestamp"]

\* The rows of the trailing window of row i: the rows of its entity among
\* the last ten up to i.
TrailingTen(i) ==
    LET S == Before(i) \cup {i}
    IN  {j \in S : Cardinality({m \in S : m > j}) <= 9}

\* C3: the rolling mean of a row is the mean of its entity's values over
\* the trailing window of at most ten rows that ends at the row (in
\* timestamp order); for an entity's first row the rolling mean is the raw
\* value and the rolling std is 0.
C3_RollingWindow ==
    Engineered =>
        \A i \in 1..Len(Out) : \A c \in SeqSet(roll_cols) :
            LET m == Out[i][c \o "_roll_mean_10"]
                sd == Out[i][c \o "_roll_std_10"]
                W == TrailingTen(i)
            IN  /\ \A j \in Before(i) : Out[j]["timestamp"] <= Out[i]["timestamp"]
                /\ m.den > 0
                /\ m.num * Cardinality(W) = SumOver(W, Out, c) * m.den
                /\ Before(i) = {} =>
                      /\ m.num = Out[i][c] * m.den
                      /\ sd.den > 0
                      /\ sd.num = 0

C3_Witness ==
    /\ Engineered
    /\ \E i \in 1..Len(Out) :
          LET m == Out[i]["speed_kmh_roll_mean_10"]
              S == Before(i) \cup {i}
          IN  /\ Cardinality(S) > RollWindow
              /\ Cardinality(TrailingTen(i)) = RollWindow
              /\ m.num * Cardinality(S) # SumOver(S, Out, "speed_kmh") * m.den
    /\ \E i \in 1..Len(Out) :
          /\ \A j \in 1..Len(Out) : j # i => Out[j]["vin"] # Out[i]["vin"]
          /\ Out[i]["speed_kmh_roll_mean_10"].num # 0
          /\ Out[i]["speed_kmh_roll_std_10"].num = 0

\* The place of input row j in the stable sort by (vin, timestamp).
KeyBefore(a, b) ==
    \/ VinRank(a["vin"]) < VinRank(b["vin"])
    \/ VinRank(a["vin"]) = VinRank(b["vin"]) /\ a["timestamp"] < b["timestamp"]
SameKey(a, b) == a["vin"] = b["vin"] /\ a["timestamp"] = b["timestamp"]
Place(j) ==
    Cardinality({i \in 1..Len(In) : KeyBefore(In[i], In[j])})
        + Cardinality({i \in 1..j : SameKey(In[i], In[j])})

\* C4: the engineered batch is the stable sort of the input by (vin,
\* timestamp): non-decreasing, each entity contiguous, equal keys in input
\* order.
C4_StableSort ==
    Engineered =>
        /\ Len(Out) = Len(In)
        /\ \A j \in 1..Len(In) : RawPart(Out[Place(j)]) = In[j]
        /\ \A i \in 1..(Len(Out) - 1) : ~KeyBefore(Out[i + 1], Out[i])
        /\ \A i, j \in 1..Len(Out) :
              i < j /\ Out[i]["vin"] = Out[j]["vin"] =>
                  \A k \in i..j : Out[k]["vin"] = Out[i]["vin"]

C4_Witness ==
    /\ Engineered
    /\ \E i, j \in 1..Len(In) :
          /\ i < j
          /\ SameKey(In[i], In[j])
          /\ In[i] # In[j]
          /\ Place(i) # i
    /\ \E i \in 1..(Len(In) - 1) : KeyBefore(In[i + 1], In[i])

\* C5: thermal_stress is battery_temp + inverter_temp - ambient_temp and
\* power_stress is motor_current * max(speed, 1), from the row's own raw
\* values; for speed < 1 power_stress is motor_current.
C5_StressProxies ==
    Engineered =>
        \A i \in 1..Len(Out) :
            LET r == Out[i]
            IN  /\ r["thermal_stress"]
                     = r["battery_temp_c"] + r["inverter_temp_c"] - r["ambient_temp_c"]
                /\ r["power_stress"]
                     = r["motor_current_a"] * Max(r["speed_kmh"], 1)
                /\ r["speed_kmh"] < 1 => r["power_stress"] = r["motor_current_a"]
                /\ \E j \in 1..Len(In) : In[j] = RawPart(r)

C5_Witness ==
    /\ Engineered
    /\ \E i \in 1..Len(Out) :
          /\ Out[i]["speed_kmh"] < 0
          /\ Out[i]["motor_current_a"] # 0
          /\ Out[i]["power_stress"] = Out[i]["motor_current_a"]
    /\ \E i \in 1..Len(Out) :
          /\ Out[i]["speed_kmh"] = 0
          /\ Out[i]["motor_current_a"] # 0
          /\ Out[i]["power_stress"] = Out[i]["motor_current_a"]
    /\ \E i \in 1..Len(Out) :
          /\ Out[i]["speed_kmh"] > 1
          /\ Out[i]["motor_current_a"] # 0
          /\ Out[i]["power_stress"] # Out[i]["motor_current_a"]
    /\ \E i \in 1..Len(Out) : Out[i]["thermal_stress"] # Out[i]["battery_temp_c"]

\* The run has gone past the check of the header.
HeaderChecked == runs > 0 /\ pc # "load_csv"
MissingColumnsRaised ==
    /\ ret.status = "raised"
    /\ ret.at = "load_csv"
    /\ ret.err.msg = "Missing required columns"

\* C6: a header that lacks required columns makes the validator fail with
\* an error that names every one of the lacking columns and no other; a
\* header with all ten does not make it fail.
C6_ValidatorNamesAllMissing ==
    HeaderChecked =>
        /\ MissingColumnsRaised <=> (RequiredSet \ csv.header # {})
        /\ MissingColumnsRaised =>
              /\ SeqSet(ret.err.missing) = RequiredSet \ csv.header
              /\ Len(ret.err.missing) = Cardinality(RequiredSet \ csv.header)
              /\ db = db0

C6_Witness ==
    /\ MissingColumnsRaised
    /\ Cardinality(RequiredSet \ csv.header) = 2
    /\ Len(ret.err.missing) = 2

IsPrefix(s, t) == Len(s) <= Len(t) /\ \A k \in 1..Len(s) : s[k] = t[k]

BadFile(file) ==
    \/ ~(RequiredSet \subseteq file.header)
    \/ \E i \in 1..Len(file.rows) :
          \/ ~IsTime(file.rows[i]["timestamp"])
          \/ \E c \in SeqSet(numeric_cols) : ~IsNumeric(file.rows[i][c])

\* C7: a run does load and validate, persist raw, feature engineer, persist
\* features, build indices, in that order, and stops where it fails: after a
\* failed validation no table was replaced; after a failure of feature
\* engineering raw holds the new batch and features is as the run found it.
C7_StagesAndFailure ==
    /\ IsPrefix(log, RunOrder)
    /\ ret.status = "returned" => log = RunOrder
    /\ runs > 0 /\ pc = "idle" /\ BadFile(csv) =>
          ret.status = "raised" /\ ret.at \in {"load_csv", "_coerce_dtypes"}
    /\ ret.status = "raised" /\ ret.at \in {"load_csv", "_coerce_dtypes"} =>
          /\ db = db0
          /\ Len(log) < 2
    /\ ret.status = "raised" /\ ret.at = "feature_engineer" =>
          /\ log = SubSeq(RunOrder, 1, 3)
          /\ db.tables.raw = Table(raw)
          /\ Len(db.tables.raw.rows) = Len(csv.rows)
          /\ db.tables.features = db0.tables.features

C7_Witness ==
    /\ ret.status = "raised"
    /\ ret.at = "feature_engineer"
    /\ db0.tables.features.exists
    /\ db0.tables.raw.rows # db.tables.raw.rows
    /\ Len(db.tables.features.rows) # Len(db.tables.raw.rows)

\* C8: after a persist the relation holds exactly the rows of the batch
\* persisted last, the other relation is as it was, and persisting the same
\* batch again changes nothing.
C8_PersistReplaces ==
    /\ Len(log) >= 3 =>
          /\ db.tables.raw.rows = raw.rows
          /\ db.tables.raw.columns = raw.columns
          /\ _to_sql(db, "raw", raw).tables = db.tables
          /\ _to_sql(_to_sql(db0, "raw", raw), "raw", raw) = _to_sql(db0, "raw", raw)
    /\ Len(log) \in {3, 4} => db.tables.features = db0.tables.features
    /\ Len(log) >= 5 =>
          /\ db.tables.features.rows = feat.rows
          /\ db.tables.features.columns = feat.columns
          /\ _to_sql(db, "features", feat).tables = db.tables

C8_Witness ==
    /\ runs >= 2
    /\ ret.status = "returned"
    /\ Len(db0.tables.raw.rows) = 2
    /\ Len(db.tables.raw.rows) = 1
    /\ Len(db.tables.features.rows) = 1
    /\ db0.tables.raw.rows[1] # db.tables.raw.rows[1]

(***************************************************************************)
(* Properties of the generator                                             *)
(***************************************************************************)
Params(g) == <<g.vins, g.seed, g.rows, g.hz, g.start>>

\* C9: two finished generator runs with the same (vins, seed, rows, hz,
\* start) have yielded the same rows, whatever else ran in the process.
C9_SameSeedSameOutput ==
    \A i, j \in 1..MaxGens :
        /\ gens[i].phase = "done"
        /\ gens[j].phase = "done"
        /\ Params(gens[i]) = Params(gens[j])
        => out[i] = out[j]

Percent(x) == 0 <= x /\ x <= Fx(100)
PercentEmitted(x) == 0 <= x /\ x <= 10000

\* C10: in every state of every generator soc, tire and brake are in
\* [0, 100], and so are the state_of_charge, tire_wear_pct and
\* brake_wear_pct of every row yielded.
C10_PercentagesBounded ==
    \A i \in 1..MaxGens :
        /\ \A v \in 1..Len(gens[i].states) :
              /\ Percent(gens[i].states[v].soc)
              /\ Percent(gens[i].states[v].tire)
              /\ Percent(gens[i].states[v].brake)
        /\ \A n \in 1..Len(out[i]) :
              /\ PercentEmitted(out[i][n]["soc_pct"])
              /\ PercentEmitted(out[i][n]["tire_wear_pct"])
              /\ PercentEmitted(out[i][n]["brake_wear_pct"])

\* The walk has drained the battery: soc sits on its lower bound while the
\* vehicle moves, and the row yielded says 0.
C10_Witness ==
    /\ gens[1].phase = "streaming"
    /\ gens[1].k > 1000
    /\ Len(out[1]) = 1
    /\ out[1][1]["soc_pct"] = 0
    /\ out[1][1]["speed_kmh"] > 0
    /\ out[1][1]["tire_wear_pct"] < 10000
    /\ \E v \in 1..Len(gens[1].states) : gens[1].states[v].soc = 0

====
